---- MODULE Spec2Model ----
(***************************************************************************)
(* Model of the index construction and return-chaining engine,             *)
(* calculate_daily_index (src/index_calculation.py), over the tables of    *)
(* src/config.py: daily_prices, index_composition, index_performance, and  *)
(* of calculate_composition_changes (src/end_output.py), which reads the   *)
(* compositions a run has stored.                                          *)
(*                                                                         *)
(* Numbers.  REAL columns and Python floats are modelled as exact          *)
(* rationals <<n, d>> in lowest terms with d > 0, so every arithmetic      *)
(* identity below is one of exact arithmetic; the rounding of IEEE doubles *)
(* is not modelled.  A nullable column holds NULL (<<>>) or <<v>>.         *)
(***************************************************************************)
EXTENDS Integers, Sequences, FiniteSets, TLC

VARIABLES
    daily_prices,          \* table daily_prices: <<symbol, date>> -> [market_cap, close_price]
    index_composition,     \* table index_composition: set of rows
    index_performance,     \* table index_performance: set of rows
    pc,                    \* "idle", "running", "done" (returned), "failed" (raised)
                           \* or "exported" (the composition changes were computed)
    dates_df,              \* the run's sorted distinct trading dates
    idx,                   \* position of the for loop in dates_df (1-based)
    index_values,          \* the run's list index_values
    previous_index_value,  \* the run's carried scalar
    run_error,             \* the exception the run raised, or "none"
    runs,                  \* number of calls of calculate_daily_index so far
    history,               \* per appended index value: the date and the prev_date it used
    run_start,             \* the start_date the current call was given
    previous_run,          \* the start_date of the call before the current one and the
                           \* two tables as that call left them
    changes_df             \* the frame calculate_composition_changes returned

vars == <<daily_prices, index_composition, index_performance, pc, dates_df, idx,
          index_values, previous_index_value, run_error, runs, history,
          run_start, previous_run, changes_df>>

----------------------------------------------------------------------------
(* Bounds of the model *)

MaxDate == 3
NumSymbols == 2
MaxCap == 1
MaxClose == 2
MaxRuns == 2
MaxExtra == 2

(* Program constants *)

INDEX_SIZE == 100
BASE_INDEX_VALUE == 100
QueryLimit == 100

Dates == 1..MaxDate
NoDate == 0

NULL == <<>>
Some(v) == <<v>>
IsNull(x) == x = NULL
Val(x) == x[1]

Min(a, b) == IF a < b THEN a ELSE b

----------------------------------------------------------------------------
(* Exact rational arithmetic standing for REAL / float values *)

Abs(n) == IF n < 0 THEN -n ELSE n

RECURSIVE Gcd(_, _)
Gcd(a, b) == IF b = 0 THEN a ELSE Gcd(b, a % b)

RNorm(n, d) ==
    LET s == IF d < 0 THEN -1 ELSE 1
        g == Gcd(Abs(n), Abs(d))
    IN  IF n = 0 THEN <<0, 1>> ELSE <<(s * n) \div g, (s * d) \div g>>

R(n) == <<n, 1>>
RAdd(x, y) == RNorm(x[1] * y[2] + y[1] * x[2], x[2] * y[2])
RSub(x, y) == RNorm(x[1] * y[2] - y[1] * x[2], x[2] * y[2])
RMul(x, y) == RNorm(x[1] * y[1], x[2] * y[2])
RDiv(x, y) == RNorm(x[1] * y[2], x[2] * y[1])
RGt0(x) == x[1] > 0
RLeq(x, y) == x[1] * y[2] <= y[1] * x[2]

RECURSIVE RSumRange(_, _, _, _)
(* the sum of f[x] over the x of S in lo..hi, by halving the range *)
RSumRange(f, S, lo, hi) ==
    IF lo > hi THEN R(0)
    ELSE IF lo = hi THEN (IF lo \in S THEN f[lo] ELSE R(0))
    ELSE LET mid == (lo + hi) \div 2
         IN  RAdd(RSumRange(f, S, lo, mid), RSumRange(f, S, mid + 1, hi))

(* the sum of f[x] over the finite set of integers S *)
RSum(f, S) ==
    IF S = {} THEN R(0)
    ELSE RSumRange(f, S, CHOOSE x \in S : \A y \in S : x <= y,
                         CHOOSE x \in S : \A y \in S : y <= x)

----------------------------------------------------------------------------
(* The daily_prices table *)

(* The rows a (symbol, date) can hold: one with no market capitalisation,   *)
(* and every market_cap in 1..MaxCap with a close that is NULL or 1..MaxClose *)
PriceRecords ==
    {[market_cap |-> 0, close_price |-> Some(1)]} \cup
    [market_cap : 1..MaxCap, close_price : {NULL} \cup {Some(c) : c \in 1..MaxClose}]

HasRow(symbol, date) == <<symbol, date>> \in DOMAIN daily_prices

SymbolsOn(date) == {k[1] : k \in {c \in DOMAIN daily_prices : c[2] = date}}

(* SQL comparison x > 0 on a nullable column: NULL > 0 is not true *)
SqlGt0(x) == ~IsNull(x) /\ Val(x) > 0

----------------------------------------------------------------------------
(* Constituent selection: the top_stocks query *)

(* the filter without its close_price condition *)
EligibleByCapOnly(date) ==
    {s \in SymbolsOn(date) : daily_prices[<<s, date>>].market_cap > 0}

(* WHERE date = ? AND market_cap > 0 AND close_price > 0 *)
Eligible(date) ==
    {s \in SymbolsOn(date) :
        /\ daily_prices[<<s, date>>].market_cap > 0
        /\ SqlGt0(daily_prices[<<s, date>>].close_price)}

(* ORDER BY market_cap DESC names no second key.  SQLite's sorter hands out *)
(* rows of equal market_cap in the order the table scan met them, which is  *)
(* rowid order: the order in which store_stock_data inserted the rows.      *)
(* Symbols are numbered in that order, so a row's place in the scan is its  *)
(* symbol.                                                                  *)

(* a scan that meets the rows in the reverse of the order they were stored *)
ScanOrderReversed(E) == [s \in E |-> 0 - s]

ScanOrder(E) == [s \in E |-> s]

(* the sort in ascending order *)
OrderedBeforeAscending(date, ord, a, b) ==
    \/ daily_prices[<<a, date>>].market_cap < daily_prices[<<b, date>>].market_cap
    \/ /\ daily_prices[<<a, date>>].market_cap = daily_prices[<<b, date>>].market_cap
       /\ ord[a] < ord[b]

(* ORDER BY market_cap DESC: does row a leave the sort before row b *)
OrderedBefore(date, ord, a, b) ==
    \/ daily_prices[<<a, date>>].market_cap > daily_prices[<<b, date>>].market_cap
    \/ /\ daily_prices[<<a, date>>].market_cap = daily_prices[<<b, date>>].market_cap
       /\ ord[a] < ord[b]

(* every eligible symbol with its 1-based place in the sort *)
Placed(date, ord) ==
    LET E == Eligible(date)
    IN  {<<1 + Cardinality({t \in E : OrderedBefore(date, ord, t, s)}), s>> : s \in E}

SortedSymbols(date, ord) ==
    LET placed == Placed(date, ord)
    IN  [i \in 1..Cardinality(placed) |-> (CHOOSE p \in placed : p[1] = i)[2]]

(* LIMIT 100 *)
Limit(rows) == SubSeq(rows, 1, Min(Len(rows), QueryLimit))

(* the columns SELECT symbol, market_cap, close_price of the sorted rows *)
SelectedRows(date, symbols) ==
    [i \in DOMAIN symbols |->
        [symbol |-> symbols[i],
         market_cap |-> daily_prices[<<symbols[i], date>>].market_cap,
         close_price |-> daily_prices[<<symbols[i], date>>].close_price]]

(* the frame pd.read_sql_query(top_stocks_query) returns for a date *)
TopStocksQuery(date) ==
    SelectedRows(date, Limit(SortedSymbols(date, ScanOrder(Eligible(date)))))

(* the weight of a full index, whatever the number of rows selected *)
EqualWeightOfFullIndex(top_stocks) == RDiv(R(1), R(INDEX_SIZE))

(* weight = 1.0 / len(top_stocks) *)
EqualWeight(top_stocks) == RDiv(R(1), R(Len(top_stocks)))

(* top_stocks['rank_by_market_cap'] = range(1, len(top_stocks) + 1) *)
RankByMarketCap(i) == i

(* composition_data: the rows written to index_composition for the date *)
CompositionData(top_stocks, date) ==
    {[date |-> date,
      symbol |-> top_stocks[i].symbol,
      rank_by_market_cap |-> RankByMarketCap(i),
      market_cap |-> top_stocks[i].market_cap,
      weight |-> EqualWeight(top_stocks)] : i \in DOMAIN top_stocks}

(* DELETE FROM index_composition WHERE date = ?, then to_sql(append) *)
StoreComposition(table, top_stocks, date) ==
    {r \in table : r.date # date} \cup CompositionData(top_stocks, date)

----------------------------------------------------------------------------
(* Return chain *)

(* prev_date = dates_df['date'].iloc[len(index_values) - 1] *)
PrevDate(dates, values) == dates[Len(values)]

(* SELECT symbol, weight FROM index_composition WHERE date = ? *)
PrevCompositionQuery(table, prev_date) == {r \in table : r.date = prev_date}

(* SELECT close_price FROM daily_prices WHERE symbol = ? AND date = ?:      *)
(* the frame's rows, each a close_price that is NULL (None) or a number     *)
PriceQuery(symbol, date) ==
    IF HasRow(symbol, date) THEN <<daily_prices[<<symbol, date>>].close_price>> ELSE <<>>

(* A symbol of the previous composition whose rows both exist.  None > 0    *)
(* and None / float raise TypeError in Python.                              *)
RaisesTypeError(symbol, date, prev_date) ==
    LET current_price == PriceQuery(symbol, date)
        prev_price == PriceQuery(symbol, prev_date)
    IN  /\ current_price # <<>>
        /\ prev_price # <<>>
        /\ \/ IsNull(prev_price[1])
           \/ Val(prev_price[1]) > 0 /\ IsNull(current_price[1])

(* if not current_price.empty and not prev_price.empty: if prev_price_val > 0 *)
HasContinuity(symbol, date, prev_date) ==
    LET current_price == PriceQuery(symbol, date)
        prev_price == PriceQuery(symbol, prev_date)
    IN  /\ current_price # <<>>
        /\ prev_price # <<>>
        /\ ~IsNull(prev_price[1])
        /\ Val(prev_price[1]) > 0
        /\ ~IsNull(current_price[1])

(* stock_return = (curr_price_val / prev_price_val) - 1 *)
StockReturn(symbol, date, prev_date) ==
    RSub(RDiv(R(Val(PriceQuery(symbol, date)[1])), R(Val(PriceQuery(symbol, prev_date)[1]))),
         R(1))

(* row['weight'] of the row of a symbol *)
WeightOf(prev_composition, symbol) ==
    (CHOOSE r \in prev_composition : r.symbol = symbol).weight

(* the loop over prev_composition.iterrows(): whether it raised, and its two sums *)
ReturnLoop(prev_composition, date, prev_date) ==
    LET valid == {r.symbol : r \in {q \in prev_composition :
                                       HasContinuity(q.symbol, date, prev_date)}}
    IN  [raised |-> \E r \in prev_composition : RaisesTypeError(r.symbol, date, prev_date),
         total_return |->
            RSum([s \in valid |-> RMul(WeightOf(prev_composition, s),
                                       StockReturn(s, date, prev_date))], valid),
         valid_weights |-> RSum([s \in valid |-> WeightOf(prev_composition, s)], valid)]

(* if valid_weights > 0: total_return / valid_weights else 0.0 *)
DailyReturn(loop) ==
    IF RGt0(loop.valid_weights) THEN RDiv(loop.total_return, loop.valid_weights) ELSE R(0)

(* the previous value times the return alone *)
ChainIndexValueByReturn(previous, daily_return) == RMul(previous, daily_return)

(* index_value = previous_index_value * (1 + daily_return) *)
ChainIndexValue(previous, daily_return) == RMul(previous, RAdd(R(1), daily_return))

(* the ratio to the base value, not its excess over 1 *)
CumulativeReturnAsRatio(index_value) == RDiv(index_value, R(BASE_INDEX_VALUE))

(* cumulative_return = (index_value / BASE_INDEX_VALUE) - 1 *)
CumulativeReturn(index_value) == RSub(RDiv(index_value, R(BASE_INDEX_VALUE)), R(1))

(* if len(index_values) == 0 *)
IsFirstDay(values) == Len(values) = 0

(* a first day that resumes from the latest stored performance row *)
FirstDayEntryResumed(table) ==
    IF table = {}
    THEN [index_value |-> R(BASE_INDEX_VALUE), daily_return |-> R(0),
          cumulative_return |-> R(0)]
    ELSE LET last == CHOOSE r \in table : \A q \in table : q.date <= r.date
         IN  [index_value |-> last.index_value, daily_return |-> R(0),
              cumulative_return |-> last.cumulative_return]

(* the first-day branch: index_value, daily_return, cumulative_return *)
FirstDayEntry(table) ==
    [index_value |-> R(BASE_INDEX_VALUE), daily_return |-> R(0), cumulative_return |-> R(0)]

(* the else branch, once the loop has not raised *)
ReturnEntry(composition, date, prev_date, previous) ==
    LET prev_composition == PrevCompositionQuery(composition, prev_date)
        loop == ReturnLoop(prev_composition, date, prev_date)
        daily_return == IF prev_composition = {} THEN R(0) ELSE DailyReturn(loop)
        index_value == IF prev_composition = {} THEN previous
                       ELSE ChainIndexValue(previous, daily_return)
    IN  [index_value |-> index_value,
         daily_return |-> daily_return,
         cumulative_return |-> CumulativeReturn(index_value)]

(* a carried value that stays at the base *)
CarriedIndexValueAtBase(index_value) == R(BASE_INDEX_VALUE)

(* previous_index_value = index_value *)
CarriedIndexValue(index_value) == index_value

(* DELETE FROM index_performance WHERE date = ?, then to_sql(append) *)
StorePerformance(table, date, entry, top_stocks) ==
    {r \in table : r.date # date} \cup
    {[date |-> date,
      index_value |-> entry.index_value,
      daily_return |-> entry.daily_return,
      cumulative_return |-> entry.cumulative_return,
      num_constituents |-> Len(top_stocks)]}

----------------------------------------------------------------------------
(* calculate_daily_index *)

(* SELECT DISTINCT date FROM daily_prices WHERE date BETWEEN ? AND ? ORDER BY date *)
DatesQuery(start_date, end_date) ==
    LET found == {d \in start_date..end_date : SymbolsOn(d) # {}}
    IN  [i \in 1..Cardinality(found) |->
            CHOOSE d \in found : Cardinality({e \in found : e < d}) = i - 1]

(* entry of the function up to the for loop; an empty range returns at once *)
CalculateDailyIndex(start_date, end_date) ==
    /\ pc \in {"idle", "done", "failed"}
    /\ runs < MaxRuns
    /\ runs' = runs + 1
    /\ dates_df' = DatesQuery(start_date, end_date)
    /\ pc' = IF dates_df' = <<>> THEN "done" ELSE "running"
    /\ idx' = 1
    /\ index_values' = <<>>
    /\ previous_index_value' = R(BASE_INDEX_VALUE)
    /\ run_error' = "none"
    /\ history' = <<>>
    /\ run_start' = start_date
    /\ previous_run' = [start_date |-> run_start,
                        index_composition |-> index_composition,
                        index_performance |-> index_performance]
    /\ UNCHANGED <<daily_prices, index_composition, index_performance, changes_df>>

(* one iteration of the for loop over dates_df['date'] *)
ProcessDate ==
    /\ pc = "running"
    /\ idx <= Len(dates_df)
    /\ \E top_stocks \in {TopStocksQuery(dates_df[idx])} :
        LET date == dates_df[idx]
            composition == StoreComposition(index_composition, top_stocks, date)
            first == IsFirstDay(index_values)
            prev_date == IF first THEN NoDate ELSE PrevDate(dates_df, index_values)
            prev_composition == PrevCompositionQuery(composition, prev_date)
            raised == /\ ~first
                      /\ ReturnLoop(prev_composition, date, prev_date).raised
            entry == IF first THEN FirstDayEntry(index_performance)
                     ELSE ReturnEntry(composition, date, prev_date, previous_index_value)
        IN  IF Len(top_stocks) = 0
            THEN \* continue
                 /\ idx' = idx + 1
                 /\ UNCHANGED <<index_composition, index_performance, pc, index_values,
                                previous_index_value, run_error, history>>
            ELSE IF raised
            THEN \* the exception leaves the loop: logged and raised again
                 /\ index_composition' = composition
                 /\ pc' = "failed"
                 /\ run_error' = "TypeError"
                 /\ UNCHANGED <<index_performance, idx, index_values,
                                previous_index_value, history>>
            ELSE /\ index_composition' = composition
                 /\ index_performance' =
                        StorePerformance(index_performance, date, entry, top_stocks)
                 /\ index_values' = Append(index_values, entry.index_value)
                 /\ previous_index_value' = CarriedIndexValue(entry.index_value)
                 /\ history' = Append(history, [date |-> date, prev_date |-> prev_date])
                 /\ idx' = idx + 1
                 /\ UNCHANGED <<pc, run_error>>
    /\ UNCHANGED <<daily_prices, dates_df, runs, run_start, previous_run, changes_df>>

(* after the loop: conn.commit() and the closing log line, which reads       *)
(* index_value: unbound when no date was processed                           *)
Finish ==
    /\ pc = "running"
    /\ idx > Len(dates_df)
    /\ pc' = IF index_values = <<>> THEN "failed" ELSE "done"
    /\ run_error' = IF index_values = <<>> THEN "UnboundLocalError" ELSE "none"
    /\ UNCHANGED <<daily_prices, index_composition, index_performance, dates_df, idx,
                   index_values, previous_index_value, runs, history,
                   run_start, previous_run, changes_df>>

----------------------------------------------------------------------------
(* calculate_composition_changes (src/end_output.py), which export_to_excel *)
(* calls once calculate_daily_index has returned                            *)

(* a finite set of integers as the sequence of its elements in ascending order *)
Sorted(S) ==
    [i \in 1..Cardinality(S) |-> CHOOSE x \in S : Cardinality({y \in S : y < x}) = i - 1]

(* SELECT DISTINCT date FROM index_composition ORDER BY date *)
CompositionDatesQuery(table) == Sorted({r.date : r \in table})

(* set(read_sql_query(SELECT symbol FROM index_composition WHERE date = ?)) *)
SymbolsQuery(table, date) == {r.symbol : r \in {q \in table : q.date = date}}

(* ', '.join(sorted(tickers)) if tickers else None: the tickers in ascending *)
(* order, a ticker sorting as its number                                     *)
JoinSorted(tickers) == IF tickers = {} THEN NULL ELSE Some(Sorted(tickers))

(* 'Rebalance' if (added or removed) else 'No Change' *)
ChangeType(added, removed) ==
    IF added # {} \/ removed # {} THEN "Rebalance" ELSE "No Change"

(* a record that compares a date with the calendar day before it *)
ChangeRecordAgainstDayBefore(table, current_date, previous_date) ==
    LET current_symbols == SymbolsQuery(table, current_date)
        previous_symbols == SymbolsQuery(table, current_date - 1)
        added == current_symbols \ previous_symbols
        removed == previous_symbols \ current_symbols
    IN  [date |-> current_date,
         tickers_added |-> JoinSorted(added),
         tickers_removed |-> JoinSorted(removed),
         num_added |-> Cardinality(added),
         num_removed |-> Cardinality(removed),
         change_type |-> ChangeType(added, removed)]

(* the record appended to changes_data for dates[i] against dates[i-1] *)
ChangeRecord(table, current_date, previous_date) ==
    LET current_symbols == SymbolsQuery(table, current_date)
        previous_symbols == SymbolsQuery(table, previous_date)
        added == current_symbols \ previous_symbols
        removed == previous_symbols \ current_symbols
    IN  [date |-> current_date,
         tickers_added |-> JoinSorted(added),
         tickers_removed |-> JoinSorted(removed),
         num_added |-> Cardinality(added),
         num_removed |-> Cardinality(removed),
         change_type |-> ChangeType(added, removed)]

(* the frame returned: empty with fewer than two dates, else one record for *)
(* every i in range(1, len(dates))                                          *)
CompositionChanges(table) ==
    LET dates == CompositionDatesQuery(table)
    IN  IF Len(dates) < 2 THEN <<>>
        ELSE [i \in 1..(Len(dates) - 1) |-> ChangeRecord(table, dates[i + 1], dates[i])]

CalculateCompositionChanges ==
    /\ pc = "done"
    /\ changes_df' = CompositionChanges(index_composition)
    /\ pc' = "exported"
    /\ UNCHANGED <<daily_prices, index_composition, index_performance, dates_df, idx,
                   index_values, previous_index_value, run_error, runs, history,
                   run_start, previous_run>>

----------------------------------------------------------------------------
(* The program *)

Symbols == 1..NumSymbols

InitRun ==
    /\ index_composition = {}
    /\ index_performance = {}
    /\ pc = "idle"
    /\ dates_df = <<>>
    /\ idx = 1
    /\ index_values = <<>>
    /\ previous_index_value = R(BASE_INDEX_VALUE)
    /\ run_error = "none"
    /\ runs = 0
    /\ history = <<>>
    /\ run_start = NoDate
    /\ previous_run = [start_date |-> NoDate, index_composition |-> {},
                       index_performance |-> {}]
    /\ changes_df = <<>>

Init ==
    /\ \E present \in SUBSET (Symbols \X Dates) : daily_prices \in [present -> PriceRecords]
    /\ InitRun

Next ==
    \/ \E start_date \in Dates : CalculateDailyIndex(start_date, MaxDate)
    \/ ProcessDate
    \/ Finish
    \/ CalculateCompositionChanges

Spec == Init /\ [][Next]_vars

(* A universe larger than the index: symbols 1..n around QueryLimit on the  *)
(* first date, with market caps that repeat with period m (ties, zeros) and *)
(* closes that are NULL every k-th symbol.                                  *)
PatternTable(n, a, m, k) ==
    [c \in (1..n) \X {1} |->
        [market_cap |-> (c[1] * a) % m,
         close_price |-> IF c[1] % k = 0 THEN NULL ELSE Some(1 + (c[1] % 2))]]

InitSel ==
    /\ \E n \in (QueryLimit - 1)..(QueryLimit + MaxExtra), a \in {1, 7},
          m \in {3, 60, 1000}, k \in {2, 3, 101, 1000} :
          daily_prices = PatternTable(n, a, m, k)
    /\ InitRun

SpecSel == InitSel /\ [][Next]_vars

----------------------------------------------------------------------------
(* Reading the tables and the run, for the properties below *)

PerformanceOf(date) == CHOOSE r \in index_performance : r.date = date
CompositionOf(date) == {r \in index_composition : r.date = date}

(* C1: every date processed after the first computes its return against the *)
(* most recent earlier date of the range that produced a composition, i.e.  *)
(* the date processed just before it, whatever dates were skipped.          *)
C1_PrevDateIsLastProcessed ==
    \A i \in 2..Len(history) : history[i].prev_date = history[i - 1].date

(* Valid price continuity of a symbol between two dates, as the properties *)
(* state it: a row on both dates, neither close null, the earlier close > 0 *)
Continuity(symbol, date, prev_date) ==
    /\ <<symbol, date>> \in DOMAIN daily_prices
    /\ <<symbol, prev_date>> \in DOMAIN daily_prices
    /\ daily_prices[<<symbol, date>>].close_price # NULL
    /\ daily_prices[<<symbol, prev_date>>].close_price # NULL
    /\ daily_prices[<<symbol, prev_date>>].close_price[1] > 0

(* current_close / previous_close - 1 *)
PriceChange(symbol, date, prev_date) ==
    RSub(RDiv(R(daily_prices[<<symbol, date>>].close_price[1]),
              R(daily_prices[<<symbol, prev_date>>].close_price[1])), R(1))

(* the symbols of a stored composition with continuity from its date to date *)
ContinuingSymbols(rows, date, prev_date) ==
    {r.symbol : r \in {q \in rows : Continuity(q.symbol, date, prev_date)}}

(* sum of weight * price change over those symbols, divided by their weights *)
WeightedAverageReturn(rows, date, prev_date) ==
    LET valid == ContinuingSymbols(rows, date, prev_date)
        w == [s \in valid |-> (CHOOSE r \in rows : r.symbol = s).weight]
    IN  RDiv(RSum([s \in valid |-> RMul(w[s], PriceChange(s, date, prev_date))], valid),
             RSum(w, valid))

(* C2: the daily return of every date processed after the first is the      *)
(* weighted average price change of the symbols of the composition of the   *)
(* PREVIOUS processed date that have price continuity, over their weights.  *)
C2_ReturnFromPreviousComposition ==
    \A i \in 2..Len(history) :
        LET date == history[i].date
            previous == history[i - 1].date
        IN  ContinuingSymbols(CompositionOf(previous), date, previous) # {} =>
                PerformanceOf(date).daily_return =
                    WeightedAverageReturn(CompositionOf(previous), date, previous)

(* the part of C3 about the return that is written: over the composition    *)
(* the return calculation read, symbols without continuity are left out of  *)
(* both sums                                                                *)
MissingSymbolsExcluded ==
    \A i \in 2..Len(history) :
        LET date == history[i].date
            prev_date == history[i].prev_date
        IN  ContinuingSymbols(CompositionOf(prev_date), date, prev_date) # {} =>
                PerformanceOf(date).daily_return =
                    WeightedAverageReturn(CompositionOf(prev_date), date, prev_date)

(* C3: a symbol of the previous composition with no row or a null close on  *)
(* either date contributes to neither sum: the date still gets its daily    *)
(* return, the average over the remaining symbols (no exception replaces it) *)
C3_MissingPriceContributesNothing ==
    /\ MissingSymbolsExcluded
    /\ run_error # "TypeError"

(* the part of C7 about the entry that is written *)
StaleDayCarried ==
    \A i \in 2..Len(history) :
        LET date == history[i].date
            prev_date == history[i].prev_date
        IN  ContinuingSymbols(CompositionOf(prev_date), date, prev_date) = {} =>
                /\ PerformanceOf(date).daily_return = R(0)
                /\ PerformanceOf(date).index_value =
                       PerformanceOf(history[i - 1].date).index_value

(* C7: on a date none of whose previous-composition symbols has price       *)
(* continuity the daily return is 0 and the index value is carried over,    *)
(* and no error is raised there                                             *)
C7_StaleDayCarriesForward ==
    /\ StaleDayCarried
    /\ (pc = "failed" /\ run_error = "TypeError") =>
          ContinuingSymbols(CompositionOf(PrevDate(dates_df, index_values)),
                            dates_df[idx], PrevDate(dates_df, index_values)) # {}

(* the records of a date with market_cap > 0 and close_price > 0 *)
EligibleRecords(date) ==
    {c[1] : c \in {k \in DOMAIN daily_prices :
                      /\ k[2] = date
                      /\ daily_prices[k].market_cap > 0
                      /\ daily_prices[k].close_price # NULL
                      /\ daily_prices[k].close_price[1] > 0}}

(* C4: the index value of every entry written after the first of a run is   *)
(* the index value of the entry written just before it in that run times    *)
(* (1 + its own daily return), whatever dates were skipped in between.      *)
C4_IndexValueChains ==
    \A i \in 2..Len(history) :
        PerformanceOf(history[i].date).index_value =
            RMul(PerformanceOf(history[i - 1].date).index_value,
                 RAdd(R(1), PerformanceOf(history[i].date).daily_return))

(* two consecutive entries of a run with a skipped date between them and a  *)
(* return that moved the index                                              *)
C4_Witness ==
    \E i \in 2..Len(history) :
        /\ \E j \in DOMAIN dates_df :
              history[i - 1].date < dates_df[j] /\ dates_df[j] < history[i].date
        /\ PerformanceOf(history[i].date).daily_return # R(0)

C6_AnchorIsBase ==
    /\ (\E j \in DOMAIN dates_df : j < idx /\ EligibleRecords(dates_df[j]) # {}) =>
          Len(history) >= 1
    /\ Len(history) >= 1 =>
          /\ EligibleRecords(history[1].date) # {}
          /\ \A j \in DOMAIN dates_df :
                dates_df[j] < history[1].date => EligibleRecords(dates_df[j]) = {}
          /\ PerformanceOf(history[1].date).daily_return = R(0)
          /\ PerformanceOf(history[1].date).index_value = R(BASE_INDEX_VALUE)
          /\ PerformanceOf(history[1].date).cumulative_return = R(0)

(* a second run whose first processed date follows a date that an earlier   *)
(* run left with an index value other than the base                         *)
C6_Witness ==
    /\ runs = 2
    /\ Len(history) >= 1
    /\ \E r \in index_performance :
          r.date < history[1].date /\ r.index_value # R(BASE_INDEX_VALUE)

(* C8: on every date with composition rows, every row has the weight        *)
(* 1 / min(INDEX_SIZE, number of eligible records), in (0, 1], and the      *)
(* weights of the date sum to 1.                                            *)
C8_EqualWeights ==
    \A d \in Dates :
        LET rows == CompositionOf(d)
            symbols == {r.symbol : r \in rows}
            w == [s \in symbols |-> (CHOOSE r \in rows : r.symbol = s).weight]
        IN  rows # {} =>
              /\ \A r \in rows :
                    /\ r.weight = RDiv(R(1), R(Min(INDEX_SIZE, Cardinality(EligibleRecords(d)))))
                    /\ RGt0(r.weight)
                    /\ RLeq(r.weight, R(1))
              /\ Cardinality(symbols) = Cardinality(rows)
              /\ RSum(w, symbols) = R(1)

(* a stored composition of a date with more eligible records than the index holds *)
C8_Witness ==
    \E d \in Dates :
        CompositionOf(d) # {} /\ Cardinality(EligibleRecords(d)) > INDEX_SIZE

(* C9: the stored composition of a date is exactly the INDEX_SIZE eligible  *)
(* records of largest market_cap (all of them when fewer exist): only       *)
(* eligible records, as many as min(INDEX_SIZE, eligible), and no eligible  *)
(* record left out has a strictly larger market_cap than a selected one.    *)
C9_TopByMarketCap ==
    \A d \in Dates :
        LET rows == CompositionOf(d)
            selected == {r.symbol : r \in rows}
        IN  rows # {} =>
              /\ \A r \in rows :
                    /\ r.symbol \in EligibleRecords(d)
                    /\ r.market_cap = daily_prices[<<r.symbol, d>>].market_cap
              /\ Cardinality(rows) = Cardinality(selected)
              /\ Cardinality(selected) = Min(INDEX_SIZE, Cardinality(EligibleRecords(d)))
              /\ \A s \in EligibleRecords(d) \ selected : \A r \in rows :
                    daily_prices[<<s, d>>].market_cap <= r.market_cap

(* a truncated selection beside an ineligible record (null close) whose     *)
(* market_cap exceeds that of a selected one                                *)
C9_Witness ==
    \E d \in Dates :
        /\ CompositionOf(d) # {}
        /\ Cardinality(EligibleRecords(d)) > INDEX_SIZE
        /\ \E k \in DOMAIN daily_prices : \E r \in CompositionOf(d) :
              /\ k[2] = d
              /\ k[1] \notin EligibleRecords(d)
              /\ daily_prices[k].market_cap > r.market_cap

(* C10: the ranks of a date's composition rows are exactly 1..count, and a  *)
(* row of smaller rank never has a smaller market_cap than one of larger    *)
(* rank.                                                                    *)
C10_RanksContiguousAndOrdered ==
    \A d \in Dates :
        LET rows == CompositionOf(d)
        IN  rows # {} =>
              /\ {r.rank_by_market_cap : r \in rows} = 1..Cardinality(rows)
              /\ \A r1, r2 \in rows :
                    r1.rank_by_market_cap < r2.rank_by_market_cap =>
                        r1.market_cap >= r2.market_cap

(* a composition that holds both rows of equal and rows of different market_cap *)
C10_Witness ==
    \E d \in Dates : \E r1, r2, r3 \in CompositionOf(d) :
        /\ r1 # r2
        /\ r1.market_cap = r2.market_cap
        /\ r3.market_cap # r1.market_cap

(* C11: a call over the range of the call before it, the price records      *)
(* being the same, ends with index_composition and index_performance as    *)
(* that call left them; and no table ever holds two rows of one key (one   *)
(* performance row per date, one composition row per date and symbol).     *)
C11_RerunLeavesTablesUnchanged ==
    /\ \A r1, r2 \in index_performance : r1.date = r2.date => r1 = r2
    /\ \A r1, r2 \in index_composition :
          (r1.date = r2.date /\ r1.symbol = r2.symbol) => r1 = r2
    /\ (pc \in {"done", "failed", "exported"} /\ run_start = previous_run.start_date) =>
          /\ index_composition = previous_run.index_composition
          /\ index_performance = previous_run.index_performance

(* a second call over the range of the first has returned; the range holds *)
(* a skipped date, a date of two constituents and an index value that left *)
(* the base                                                                *)
C11_Witness ==
    /\ runs = 2
    /\ pc = "done"
    /\ run_start = previous_run.start_date
    /\ Len(history) >= 2
    /\ Len(history) < Len(dates_df)
    /\ \E r \in index_performance : r.index_value # R(BASE_INDEX_VALUE)
    /\ \E r \in index_composition : r.rank_by_market_cap = 2

(* C12: no performance entry is written for a date whose return calculation *)
(* found no stored composition for its prev_date: every entry a run wrote    *)
(* after its first was calculated against a non-empty stored composition     *)
(* (the run raises instead; it never writes daily_return 0 with the index    *)
(* value carried over).                                                      *)
C12_NoPriorCompositionAborts ==
    \A i \in 2..Len(history) : CompositionOf(history[i].prev_date) # {}

(* C13: a date whose records are all ineligible is skipped and the run goes *)
(* on: once the loop has passed it the date has no composition row and no   *)
(* performance row, a run does not end in an error for having skipped every *)
(* date, and a run that returned has processed every date of its range that *)
(* has an eligible record.                                                  *)
C13_SkippedDateLeavesNothing ==
    /\ \A j \in DOMAIN dates_df :
          (j < idx /\ EligibleRecords(dates_df[j]) = {}) =>
              /\ CompositionOf(dates_df[j]) = {}
              /\ \A r \in index_performance : r.date # dates_df[j]
    /\ ~(pc = "failed" /\ run_error = "UnboundLocalError")
    /\ pc \in {"done", "exported"} =>
          \A j \in DOMAIN dates_df :
              EligibleRecords(dates_df[j]) # {} =>
                  \E i \in DOMAIN history : history[i].date = dates_df[j]

(* C14: a run that fails while it is processing a date leaves the rows of   *)
(* that date in both tables as they were before the date was started.       *)
C14_FailedDateLeftUntouched ==
    [][(pc = "running" /\ pc' = "failed" /\ idx <= Len(dates_df)) =>
          /\ {r \in index_composition' : r.date = dates_df[idx]} = CompositionOf(dates_df[idx])
          /\ {r \in index_performance' : r.date = dates_df[idx]} =
                 {r \in index_performance : r.date = dates_df[idx]}]_vars

(* the place of an eligible record of a date among that date's eligible     *)
(* records: larger market_cap first, equal market_cap in the order the      *)
(* records were stored (symbols are numbered in that order)                 *)
InputOrderRank(d, s) ==
    1 + Cardinality({t \in EligibleRecords(d) :
            \/ daily_prices[<<t, d>>].market_cap > daily_prices[<<s, d>>].market_cap
            \/ /\ daily_prices[<<t, d>>].market_cap = daily_prices[<<s, d>>].market_cap
               /\ t < s})

SymbolsOf(rows) == {r.symbol : r \in rows}

(* the set a tickers column stands for *)
TickerSet(tickers) == IF tickers = NULL THEN {} ELSE {tickers[1][i] : i \in DOMAIN tickers[1]}

(* C16: the frame calculate_composition_changes returned holds exactly one  *)
(* record for every date with composition rows except the earliest; its     *)
(* added and removed tickers are the set differences between the symbols of *)
(* that date and of the nearest earlier date with composition rows; and its *)
(* change_type is 'Rebalance' exactly when one of the two is non-empty.     *)
C16_ChangesAgainstNearestEarlierComposition ==
    pc = "exported" =>
        LET with_rows == {d \in Dates : CompositionOf(d) # {}}
            later == {d \in with_rows : \E e \in with_rows : e < d}
        IN  /\ {changes_df[i].date : i \in DOMAIN changes_df} = later
            /\ Len(changes_df) = Cardinality(later)
            /\ \A i \in DOMAIN changes_df :
                  LET d == changes_df[i].date
                      e == CHOOSE x \in with_rows :
                              x < d /\ \A y \in with_rows : y < d => y <= x
                      added == SymbolsOf(CompositionOf(d)) \ SymbolsOf(CompositionOf(e))
                      removed == SymbolsOf(CompositionOf(e)) \ SymbolsOf(CompositionOf(d))
                  IN  /\ TickerSet(changes_df[i].tickers_added) = added
                      /\ TickerSet(changes_df[i].tickers_removed) = removed
                      /\ changes_df[i].num_added = Cardinality(added)
                      /\ changes_df[i].num_removed = Cardinality(removed)
                      /\ changes_df[i].change_type = "Rebalance" <=>
                             (added # {} \/ removed # {})
                      /\ changes_df[i].change_type \in {"Rebalance", "No Change"}

(* a frame computed over compositions with a skipped trading date between *)
(* two dates that have rows: its record for the later date reports both an *)
(* added and a removed ticker against the earlier one                      *)
C16_Witness ==
    /\ pc = "exported"
    /\ \E i \in DOMAIN changes_df : \E j \in DOMAIN dates_df : \E d1 \in Dates :
          /\ d1 < dates_df[j] /\ dates_df[j] < changes_df[i].date
          /\ CompositionOf(d1) # {} /\ CompositionOf(dates_df[j]) = {}
          /\ changes_df[i].tickers_added # NULL
          /\ changes_df[i].tickers_removed # NULL
          /\ changes_df[i].change_type = "Rebalance"

(* C17: once a run that started from empty tables has ended, the dates with *)
(* a performance row, the dates with composition rows and the dates of the  *)
(* range with an eligible record are the same set, and the num_constituents *)
(* of every performance row is the number of composition rows stored for    *)
(* its own date, between 1 and INDEX_SIZE.                                  *)
C17_TablesCoverEligibleDates ==
    (runs = 1 /\ pc \in {"done", "failed", "exported"}) =>
        LET performed == {r.date : r \in index_performance}
            composed == {r.date : r \in index_composition}
            eligible == {d \in run_start..MaxDate : EligibleRecords(d) # {}}
        IN  /\ performed = composed
            /\ composed = eligible
            /\ \A r \in index_performance :
                  /\ r.num_constituents = Cardinality(CompositionOf(r.date))
                  /\ r.num_constituents >= 1
                  /\ r.num_constituents <= INDEX_SIZE

(* C18: every performance row written has an index value above 0 and a     *)
(* daily return of at least -1 (every non-null close price of the price     *)
(* table being positive).                                                   *)
C18_IndexValuePositive ==
    (\A k \in DOMAIN daily_prices :
        daily_prices[k].close_price # NULL => daily_prices[k].close_price[1] > 0) =>
    \A r \in index_performance :
        /\ RGt0(r.index_value)
        /\ RLeq(R(0 - 1), r.daily_return)

(* a run over a skipped date that wrote a negative daily return, from a     *)
(* composition one of whose symbols has no row on the date, and an index    *)
(* value below the base                                                     *)
C18_Witness ==
    \E i \in 2..Len(history) :
        LET date == history[i].date
            prev_date == history[i].prev_date
        IN  /\ Len(history) < Len(dates_df)
            /\ \E r \in CompositionOf(prev_date) : <<r.symbol, date>> \notin DOMAIN daily_prices
            /\ ~RLeq(R(0), PerformanceOf(date).daily_return)
            /\ ~RLeq(R(BASE_INDEX_VALUE), PerformanceOf(date).index_value)

====
